---- MODULE Spec2Model ----
(***************************************************************************)
(* Area-property synchronisation (UpdateAreaMapStorageCommand.execute with *)
(* its shared p-limit limiter) and the administrative fan-out endpoints    *)
(* (AdminController) of workadventure, with the screen-sharing stores and   *)
(* the typing members of a chat room of the front.                         *)
(***************************************************************************)
EXTENDS Integers, Sequences, FiniteSets, TLC

VARIABLES pc, proposedConfig, newConfig, oldConfig, shouldNotifyUpdate, calls, queue,
          activeCount, gameMapArea, events, committed, notifications, outcomes

execVars == <<pc, proposedConfig, newConfig, oldConfig, shouldNotifyUpdate, calls, queue,
              activeCount, gameMapArea, events, committed, notifications, outcomes>>

VARIABLES requests, roomManagerClients

adminVars == <<requests, roomManagerClients>>

VARIABLES requestedScreenSharingState, inExternalServiceStore, peerStore,
          previousComputedVideoConstraint, screenSharingConstraintsStore,
          screenSharingLocalStreamStore, currentStream, captures

screenVars == <<requestedScreenSharingState, inExternalServiceStore, peerStore,
                previousComputedVideoConstraint, screenSharingConstraintsStore,
                screenSharingLocalStreamStore, currentStream, captures>>

VARIABLES typingMembers, member

chatVars == <<typingMembers, member>>

frontVars == <<screenVars, chatVars>>

vars == <<execVars, adminVars, frontVars>>

(***************************************************************************)
(* Data: area properties and area configs                                  *)
(***************************************************************************)

\* width of the process-wide limiter: const limit = pLimit(10)
Concurrency == 10

\* the edits (execute invocations) of the process; the detailed specification
\* runs SingleEdits, the limiter specification runs all of them concurrently
Edits == {1, 2}
SingleEdits == {1}

\* number of resource-backed properties of the area in the limiter specification
LimiterProps == 6

PropIds == {1, 2}
NoUrl == ""
Urls == {"u"}

\* serverData values, tagged by where they come from
NoSD == <<"none", 0>>
CacheSD(id) == <<"cache", id>>
CallerSD == <<"caller", 0>>
RespSD(id) == <<"resp", id>>

NullProp == [id |-> 0, ressourceUrl |-> NoUrl, serverData |-> NoSD, x |-> 0]

Prop(id, url, sd, x) == [id |-> id, ressourceUrl |-> url, serverData |-> sd, x |-> x]

\* property lists of at most two properties with distinct ids
ListsOf(S) == {<<>>} \cup {<<p>> : p \in S}
                \cup {l \in {<<p, q>> : p \in S, q \in S} : l[1].id # l[2].id}

\* what the in-memory area index holds before the first edit
InitialProps ==
    {Prop(id, url, sd, 0) : id \in PropIds, url \in Urls \cup {NoUrl},
                            sd \in {NoSD}} \cup
    {Prop(id, url, CacheSD(id), 0) : id \in PropIds, url \in Urls}

InitialAreas == {[name |-> 0, properties |-> l] : l \in ListsOf(InitialProps)}

\* what a caller may propose
ProposedProps ==
    {Prop(id, url, sd, x) : id \in PropIds, url \in Urls \cup {NoUrl},
                            sd \in {NoSD, CallerSD}, x \in {0, 1}} \cup
    {Prop(id, url, CacheSD(id), x) : id \in PropIds, url \in Urls, x \in {0, 1}}

ProposedConfigs == {[name |-> n, properties |-> l] : n \in {0, 1}, l \in ListsOf(ProposedProps)}

(***************************************************************************)
(* jsonpatch.compare: the positional structural diff                       *)
(***************************************************************************)

Fields == <<"id", "ressourceUrl", "serverData", "x">>

\* optional fields are absent keys of the JSON object
Has(p, f) == CASE f = "ressourceUrl" -> p.ressourceUrl # NoUrl
               [] f = "serverData" -> p.serverData # NoSD
               [] OTHER -> TRUE

\* an operation of the patch: path /top/idx/field (idx 0-based, -1 and ""
\* where the path has no such segment); value is the added property for a
\* whole-property add, and holds the new value of the field, under the
\* field's name, for an add or a replace of one field
Op(op, top, idx, field, value) ==
    [op |-> op, top |-> top, idx |-> idx, field |-> field, value |-> value]

\* the value of an operation on field f
FieldValue(f, v) == [NullProp EXCEPT ![f] = v]

RECURSIVE Concat(_)
Concat(ss) == IF ss = <<>> THEN <<>> ELSE Head(ss) \o Concat(Tail(ss))

Rev(s) == [i \in 1..Len(s) |-> s[Len(s) + 1 - i]]

\* _generate on two property objects at array index idx (0-based): the old
\* keys in reverse order give replace and remove, the new-only keys give add
FieldOps(o, n, idx) ==
    LET old(k) == LET f == Fields[k] IN
                  IF ~Has(o, f) THEN <<>>
                  ELSE IF Has(n, f)
                       THEN IF o[f] # n[f]
                            THEN <<Op("replace", "properties", idx, f, FieldValue(f, n[f]))>>
                            ELSE <<>>
                       ELSE <<Op("remove", "properties", idx, f, NullProp)>>
        new(k) == LET f == Fields[k] IN
                  IF ~Has(o, f) /\ Has(n, f)
                  THEN <<Op("add", "properties", idx, f, FieldValue(f, n[f]))>>
                  ELSE <<>>
    IN Concat(Rev([k \in 1..Len(Fields) |-> old(k)]))
       \o Concat([k \in 1..Len(Fields) |-> new(k)])

\* mutant of PropertiesOps: the indexes of old are visited in ascending order
PropertiesOpsAscending(old, new) ==
    LET at(t) == IF t <= Len(new)
                 THEN FieldOps(old[t], new[t], t - 1)
                 ELSE <<Op("remove", "properties", t - 1, "", NullProp)>>
        added(k) == IF k > Len(old)
                    THEN <<Op("add", "properties", k - 1, "", new[k])>>
                    ELSE <<>>
    IN Concat([t \in 1..Len(old) |-> at(t)])
       \o Concat([k \in 1..Len(new) |-> added(k)])

\* _generate on the two properties arrays: indexes of old in reverse order,
\* then the indexes only new has
PropertiesOps(old, new) ==
    LET at(t) == IF t <= Len(new)
                 THEN FieldOps(old[t], new[t], t - 1)
                 ELSE <<Op("remove", "properties", t - 1, "", NullProp)>>
        added(k) == IF k > Len(old)
                    THEN <<Op("add", "properties", k - 1, "", new[k])>>
                    ELSE <<>>
    IN Concat(Rev([t \in 1..Len(old) |-> at(t)]))
       \o Concat([k \in 1..Len(new) |-> added(k)])

\* jsonpatch.compare(this.oldConfig, this.newConfig)
Compare(old, new) ==
    PropertiesOps(old.properties, new.properties)
    \o (IF old.name # new.name
        THEN <<Op("replace", "name", -1, "", NullProp)>>
        ELSE <<>>)

(***************************************************************************)
(* execute: the reduce over the patch                                      *)
(***************************************************************************)

Call(kind, url, body) ==
    [kind |-> kind, url |-> url, body |-> body, st |-> "queued",
     resp |-> "", data |-> NullProp]

\* operation.path.match(new RegExp("^/properties/*"))
UnderProperties(operation) == operation.top = "properties"

\* properties.find((property) => property.id === id): index of the first, or 0
FindIndex(props, id) ==
    IF \E i \in 1..Len(props) : props[i].id = id
    THEN CHOOSE i \in 1..Len(props) :
            props[i].id = id /\ \A j \in 1..(i - 1) : props[j].id # id
    ELSE 0

\* gameMap.getGameMapAreas()?.getArea(id)?.properties.find(...)?.serverData
CachedServerData(area, id) ==
    LET i == FindIndex(area.properties, id)
    IN IF i = 0 THEN NoSD ELSE area.properties[i].serverData

\* mutant of OnAdd: the serverData of the caller is left where it is
OnAddKeepsServerData(s, operation) ==
    LET value == operation.value
    IN IF operation.field # "" \/ value.ressourceUrl = NoUrl
       THEN s
       ELSE [s EXCEPT !.acc = Append(s.acc, Call("post", value.ressourceUrl, value))]

\* if (operation.op === "add" && ...)
OnAdd(s, operation) ==
    LET value == operation.value
        cleared == [value EXCEPT !.serverData = NoSD]
        i == FindIndex(s.props, value.id)
    IN IF operation.field # "" \/ value.ressourceUrl = NoUrl
       THEN s
       ELSE [s EXCEPT !.acc = Append(s.acc, Call("post", value.ressourceUrl, cleared)),
                      !.props = IF i = 0 THEN s.props
                                ELSE [s.props EXCEPT ![i].serverData = NoSD]]

\* mutant of OnRemove: the delete call is scheduled whether or not the removed
\* property has a ressourceUrl
OnRemoveAlways(s, operation) ==
    LET value == s.old.properties[operation.idx + 1]
    IN IF operation.field # ""
       THEN s
       ELSE [s EXCEPT !.acc = Append(s.acc, Call("delete", value.ressourceUrl, value))]

\* if (operation.op === "remove" && ...)
OnRemove(s, operation) ==
    LET value == s.old.properties[operation.idx + 1]
    IN IF operation.field # "" \/ value.ressourceUrl = NoUrl
       THEN s
       ELSE [s EXCEPT !.acc = Append(s.acc, Call("delete", value.ressourceUrl, value))]

\* mutant of OnReplace: the cached serverData is taken from the property at
\* the same index of the area
OnReplaceByIndex(s, operation, area) ==
    LET i == operation.idx + 1
        property == [s.props[i] EXCEPT !.serverData = area.properties[i].serverData]
    IN IF operation.idx < 0
       THEN s
       ELSE [s EXCEPT !.acc = IF property.ressourceUrl # NoUrl
                              THEN Append(s.acc, Call("patch", property.ressourceUrl,
                                                      property))
                              ELSE s.acc,
                      !.props = [s.props EXCEPT ![i] = property]]

\* mutant of OnReplace: the property written to is the one of oldConfig too,
\* as if the two configs shared their property objects
OnReplaceAliased(s, operation, area) ==
    LET i == operation.idx + 1
        property == [s.props[i] EXCEPT
                        !.serverData = CachedServerData(area, s.props[i].id)]
    IN IF operation.idx < 0
       THEN s
       ELSE [s EXCEPT !.acc = IF property.ressourceUrl # NoUrl
                              THEN Append(s.acc, Call("patch", property.ressourceUrl,
                                                      property))
                              ELSE s.acc,
                      !.props = [s.props EXCEPT ![i] = property],
                      !.old = [s.old EXCEPT !.properties[i] = property]]

\* if (operation.op === "replace" && ...)
OnReplace(s, operation, area) ==
    LET i == operation.idx + 1
        property == [s.props[i] EXCEPT
                        !.serverData = CachedServerData(area, s.props[i].id)]
    IN IF operation.idx < 0
       THEN s
       ELSE [s EXCEPT !.acc = IF property.ressourceUrl # NoUrl
                              THEN Append(s.acc, Call("patch", property.ressourceUrl,
                                                      property))
                              ELSE s.acc,
                      !.props = [s.props EXCEPT ![i] = property]]

\* mutant of OnOperation: the path is not tested, an operation on another
\* member of the config is handled as one on the first property
OnOperationAnyPath(s, operation, area) ==
    IF ~UnderProperties(operation)
    THEN IF s.props = <<>> THEN s
         ELSE OnReplace(s, [operation EXCEPT !.idx = 0], area)
    ELSE CASE operation.op = "add" -> OnAdd(s, operation)
           [] operation.op = "remove" -> OnRemove(s, operation)
           [] operation.op = "replace" -> OnReplace(s, operation, area)

\* the callback of the reduce: the three handlers, each behind the test of
\* the operation and of its path
OnOperation(s, operation, area) ==
    IF ~UnderProperties(operation) THEN s
    ELSE CASE operation.op = "add" -> OnAdd(s, operation)
           [] operation.op = "remove" -> OnRemove(s, operation)
           [] operation.op = "replace" -> OnReplace(s, operation, area)

\* patch.reduce(...): s holds the promises pushed so far (acc) and the two
\* configs of the command the callback reaches through this: the properties
\* of newConfig (props) and oldConfig (old)
RECURSIVE Reduce(_, _, _)
Reduce(ops, s, area) ==
    IF ops = <<>> THEN s
    ELSE Reduce(Tail(ops), OnOperation(s, Head(ops), area), area)

\* the reduce of execute on the command's two configs
ReduceEdit(old, proposed, area) ==
    Reduce(Compare(old, proposed),
           [acc |-> <<>>, props |-> proposed.properties, old |-> old], area)

(***************************************************************************)
(* p-limit: the shared limiter                                             *)
(***************************************************************************)

\* mutant of Admit: an off-by-one admission test
AdmitInclusive(active) == active <= Concurrency

\* p-limit admits a queued call while activeCount < concurrency
Admit(active) == active < Concurrency

\* mutant of StartHead: the call started is the last one of the queue
StartLast(l) ==
    LET e == l.queue[Len(l.queue)][1]
        i == l.queue[Len(l.queue)][2]
    IN [calls |-> [l.calls EXCEPT ![e][i].st = "running"],
        queue |-> SubSeq(l.queue, 1, Len(l.queue) - 1),
        active |-> l.active + 1]

\* run(): activeCount++ and the call's function is invoked
StartHead(l) ==
    LET e == Head(l.queue)[1]
        i == Head(l.queue)[2]
    IN [calls |-> [l.calls EXCEPT ![e][i].st = "running"],
        queue |-> Tail(l.queue),
        active |-> l.active + 1]

\* the microtask of every enqueue: dequeue while a slot is free
RECURSIVE Drain(_)
Drain(l) == IF l.queue # <<>> /\ Admit(l.active) THEN Drain(StartHead(l)) ELSE l

\* mutant of LimiterNext: the slot of the settled call is not given back
LimiterNextLeaks(l) == IF l.queue # <<>> THEN StartHead(l) ELSE l

\* mutant of LimiterNext: the slot is freed and no waiting call is started
LimiterNextIdle(l) == [l EXCEPT !.active = l.active - 1]

\* next(): activeCount--, then the head of the queue, if any, is started
LimiterNext(l) ==
    LET freed == [l EXCEPT !.active = l.active - 1]
    IN IF freed.queue # <<>> THEN StartHead(freed) ELSE freed

(***************************************************************************)
(* execute: awaiting the calls, notifying, committing                      *)
(***************************************************************************)

AllSettled(cs) == \A i \in 1..Len(cs) : cs[i].st = "settled"

\* mutant of PromiseAll: the await ends with the first call that settles
PromiseAllFirst(cs, justRejected) ==
    IF justRejected THEN "rejected" ELSE "fulfilled"

\* what Promise.all(promises) does when a call settles while execute awaits
\* it (no call has been rejected before, or the await would be over): it is
\* rejected by a rejection, fulfilled when the last call is fulfilled
PromiseAll(cs, justRejected) ==
    IF justRejected THEN "rejected"
    ELSE IF AllSettled(cs) THEN "fulfilled"
    ELSE "pending"

\* mutant of AfterAwait: the catch block dispatches the notification a create
\* response asked for
AfterAwaitNotifyInCatch(outcome, notify) ==
    IF outcome = "rejected"
    THEN IF notify THEN <<"error", "notify">> ELSE <<"error">>
    ELSE IF notify THEN <<"notify">>
    ELSE <<>>

\* mutant of AfterAwait: the notification follows every fulfilled await
AfterAwaitNotifyAlways(outcome, notify) ==
    IF outcome = "rejected" THEN <<"error">> ELSE <<"notify">>

\* mutant of AfterAwait: the catch block swallows the error without logging
AfterAwaitSilent(outcome, notify) ==
    IF outcome = "rejected" THEN <<>>
    ELSE IF notify THEN <<"notify">>
    ELSE <<>>

\* the try/catch around await Promise.all(promises): the events it produces
\* before super.execute()
AfterAwait(outcome, notify) ==
    IF outcome = "rejected" THEN <<"error">>
    ELSE IF notify THEN <<"notify">>
    ELSE <<>>

\* notifyAreaUpdate, lines 129-147: the modify-area message of the edit, handed
\* to dispatchModifyAreaMessage of a new RoomManagerClient(this.backAddress),
\* the handles being numbered in the order of their creation; st is "sent"
\* until the callback of the dispatch runs
Dispatch(e, properties) ==
    [edit |-> e, properties |-> properties, st |-> "sent",
     client |-> Len(notifications) + 1]

\* mutant of Continue: the catch block rethrows, so a rejection ends execute
\* without super.execute()
ContinueRethrow(e, outcome, cfg, notify) ==
    LET evs == AfterAwait(outcome, notify)
    IN /\ pc' = [pc EXCEPT ![e] = IF outcome = "rejected" THEN "thrown" ELSE "done"]
       /\ events' = [events EXCEPT ![e] =
                        @ \o evs \o (IF outcome = "rejected" THEN <<>> ELSE <<"commit">>)]
       /\ committed' = [committed EXCEPT ![e] =
                        IF outcome = "rejected" THEN @ ELSE Append(@, cfg)]
       /\ gameMapArea' = IF outcome = "rejected" THEN gameMapArea ELSE cfg
       /\ notifications' =
            IF "notify" \in {evs[k] : k \in 1..Len(evs)}
            THEN Append(notifications, Dispatch(e, cfg.properties))
            ELSE notifications

\* the continuation of execute after the await, as one step: notifyAreaUpdate
\* and console.error as events, then super.execute() committing newConfig
Continue(e, outcome, cfg, notify) ==
    LET evs == AfterAwait(outcome, notify)
    IN /\ pc' = [pc EXCEPT ![e] = "done"]
       /\ events' = [events EXCEPT ![e] = @ \o evs \o <<"commit">>]
       /\ committed' = [committed EXCEPT ![e] = Append(@, cfg)]
       /\ gameMapArea' = cfg
       /\ notifications' =
            IF "notify" \in {evs[k] : k \in 1..Len(evs)}
            THEN Append(notifications, Dispatch(e, cfg.properties))
            ELSE notifications

StayAwaiting ==
    UNCHANGED <<pc, events, committed, gameMapArea, notifications>>

\* execute(), from its call to the await: the diff, the reduce that schedules
\* the calls on the limiter, and the microtasks that start the admitted ones
Execute(e, proposed) ==
    /\ pc[e] = "idle"
    /\ LET old == gameMapArea
           red == ReduceEdit(old, proposed, gameMapArea)
           cfg == [proposed EXCEPT !.properties = red.props]
           l == Drain([calls |-> [calls EXCEPT ![e] = red.acc],
                       queue |-> queue \o [i \in 1..Len(red.acc) |-> <<e, i>>],
                       active |-> activeCount])
       IN /\ oldConfig' = [oldConfig EXCEPT ![e] = red.old]
          /\ proposedConfig' = [proposedConfig EXCEPT ![e] = proposed]
          /\ newConfig' = [newConfig EXCEPT ![e] = cfg]
          /\ shouldNotifyUpdate' = [shouldNotifyUpdate EXCEPT ![e] = FALSE]
          /\ UNCHANGED outcomes
          /\ calls' = l.calls
          /\ queue' = l.queue
          /\ activeCount' = l.active
          /\ IF red.acc = <<>>
             THEN Continue(e, "fulfilled", cfg, FALSE)
             ELSE /\ pc' = [pc EXCEPT ![e] = "awaiting"]
                  /\ UNCHANGED <<events, committed, gameMapArea, notifications>>

\* bodies a resource endpoint may answer a create with
ValidResponses(body) ==
    {body,
     [body EXCEPT !.serverData = RespSD(body.id)],
     [body EXCEPT !.serverData = RespSD(body.id), !.x = 1 - body.x]}

\* mutant of OnCreateResponse: an empty or schema-invalid body takes the
\* notification back
OnCreateResponseResets(notify, props, id, resp, data) ==
    IF resp \in {"empty", "invalid"}
    THEN [notify |-> FALSE, props |-> props]
    ELSE [notify |-> TRUE,
          props |-> [k \in 1..Len(props) |->
                        IF props[k].id # id \/ data.serverData = NoSD
                        THEN props[k]
                        ELSE data]]

\* mutant of OnCreateResponse: the schema check is skipped
OnCreateResponseUnchecked(notify, props, id, resp, data) ==
    IF resp = "empty"
    THEN [notify |-> notify, props |-> props]
    ELSE [notify |-> TRUE,
          props |-> [k \in 1..Len(props) |->
                        IF props[k].id # id \/ data.serverData = NoSD
                        THEN props[k]
                        ELSE data]]

\* the response handler of a create call, lines 52-75: what it makes of
\* shouldNotifyUpdate and of newConfig.properties
OnCreateResponse(notify, props, id, resp, data) ==
    IF resp \in {"empty", "invalid"}
    THEN [notify |-> notify, props |-> props]
    ELSE [notify |-> TRUE,
          props |-> [k \in 1..Len(props) |->
                        IF props[k].id # id \/ data.serverData = NoSD
                        THEN props[k]
                        ELSE data]]

\* a running call settles: its promise is fulfilled or rejected, the limiter
\* frees its slot and starts the next queued call, and an execute awaiting
\* this call continues if Promise.all is settled by it
Settle(e, i, resp, data) ==
    /\ i \in 1..Len(calls[e])
    /\ calls[e][i].st = "running"
    /\ LET c == calls[e][i]
           rejected == resp = "raised"
           h == IF c.kind = "post" /\ ~rejected
                THEN OnCreateResponse(shouldNotifyUpdate[e], newConfig[e].properties,
                                      c.body.id, resp, data)
                ELSE [notify |-> shouldNotifyUpdate[e],
                      props |-> newConfig[e].properties]
           cfg == [newConfig[e] EXCEPT !.properties = h.props]
           settled == [calls EXCEPT ![e][i] =
                          [c EXCEPT !.st = "settled",
                                    !.resp = IF c.kind = "post" THEN resp ELSE "",
                                    !.data = data]]
           l == LimiterNext([calls |-> settled, queue |-> queue, active |-> activeCount])
           outcome == PromiseAll(l.calls[e], rejected)
       IN /\ calls' = l.calls
          /\ queue' = l.queue
          /\ activeCount' = l.active
          /\ newConfig' = [newConfig EXCEPT ![e] = cfg]
          /\ shouldNotifyUpdate' = [shouldNotifyUpdate EXCEPT ![e] = h.notify]
          /\ outcomes' = [outcomes EXCEPT ![e] =
                            @ \cup {IF rejected THEN "rejected" ELSE "fulfilled"}]
          /\ UNCHANGED <<oldConfig, proposedConfig>>
          /\ IF pc[e] = "awaiting" /\ outcome # "pending"
             THEN Continue(e, outcome, cfg, h.notify)
             ELSE StayAwaiting

\* the outcomes of a running call: (resp, data)
Outcomes(c) ==
    IF c.kind = "post"
    THEN {<<"raised", NullProp>>, <<"empty", NullProp>>, <<"invalid", NullProp>>}
         \cup {<<"valid", d>> : d \in ValidResponses(c.body)}
    ELSE {<<"raised", NullProp>>, <<"ok", NullProp>>}

SettleAny(e) ==
    \E i \in 1..Len(calls[e]) :
        \E o \in Outcomes(calls[e][i]) : Settle(e, i, o[1], o[2])

\* mutant of DispatchCallback: a failed dispatch is dispatched again
DispatchCallbackRetry(k, error) ==
    /\ k \in 1..Len(notifications)
    /\ notifications[k].st = "sent"
    /\ LET e == notifications[k].edit
           failed == [notifications EXCEPT ![k].st = "failed"]
       IN /\ notifications' =
                IF error THEN Append(failed, Dispatch(e, notifications[k].properties))
                ELSE [notifications EXCEPT ![k].st = "delivered"]
          /\ events' = [events EXCEPT ![e] =
                          IF error THEN @ \o <<"dispatch-error", "notify">> ELSE @]
    /\ UNCHANGED <<pc, proposedConfig, newConfig, oldConfig, shouldNotifyUpdate, calls,
                   queue, activeCount, gameMapArea, committed, outcomes>>

\* the callback of dispatchModifyAreaMessage, lines 143-146: an error is
\* written to the console, and that is all the callback does
DispatchCallback(k, error) ==
    /\ k \in 1..Len(notifications)
    /\ notifications[k].st = "sent"
    /\ LET e == notifications[k].edit
       IN /\ notifications' =
                [notifications EXCEPT ![k].st = IF error THEN "failed" ELSE "delivered"]
          /\ events' = [events EXCEPT ![e] =
                          IF error THEN Append(@, "dispatch-error") ELSE @]
    /\ UNCHANGED <<pc, proposedConfig, newConfig, oldConfig, shouldNotifyUpdate, calls,
                   queue, activeCount, gameMapArea, committed, outcomes>>

NullConfig == [name |-> 0, properties |-> <<>>]

InitExec ==
    /\ pc = [e \in Edits |-> "idle"]
    /\ newConfig = [e \in Edits |-> NullConfig]
    /\ proposedConfig = [e \in Edits |-> NullConfig]
    /\ oldConfig = [e \in Edits |-> NullConfig]
    /\ shouldNotifyUpdate = [e \in Edits |-> FALSE]
    /\ calls = [e \in Edits |-> <<>>]
    /\ queue = <<>>
    /\ activeCount = 0
    /\ events = [e \in Edits |-> <<>>]
    /\ committed = [e \in Edits |-> <<>>]
    /\ notifications = <<>>
    /\ outcomes = [e \in Edits |-> {}]

ExecuteStep(E, P) ==
    /\ \E e \in E : \E p \in P : Execute(e, p)
    /\ UNCHANGED <<adminVars, frontVars>>

SettleStep(E) ==
    /\ \E e \in E : SettleAny(e)
    /\ UNCHANGED <<adminVars, frontVars>>

DispatchCallbackStep ==
    /\ \E k \in 1..Len(notifications) : \E error \in BOOLEAN : DispatchCallback(k, error)
    /\ UNCHANGED <<adminVars, frontVars>>

(***************************************************************************)
(* The limiter under load: every edit of Edits runs concurrently on an     *)
(* area of LimiterProps resource-backed properties                         *)
(***************************************************************************)

LimiterArea ==
    [name |-> 0,
     properties |-> [i \in 1..LimiterProps |-> Prop(i, "u", NoSD, 0)]]

\* an edit that touches every property but the last and removes the last
LimiterTouchRemove ==
    [name |-> 0,
     properties |-> [i \in 1..(LimiterProps - 1) |-> Prop(i, "u", NoSD, 1)]]

LimiterProposals == {LimiterTouchRemove}

(***************************************************************************)
(* AdminController and the room client registry                            *)
(***************************************************************************)

\* administrative requests served by the process
MaxRequests == 2
ReqIds == 1..MaxRequests

Rooms == {"a", "b"}

\* target lists of POST /message
TargetLists == {<<"a", "b">>, <<"b", "b">>}

\* answers of a room server to getRooms: its roomDescription list
RoomsLists ==
    {<<[roomId |-> "a", nbUsers |-> 1]>>,
     <<[roomId |-> "a", nbUsers |-> 2], [roomId |-> "b", nbUsers |-> 1]>>}

NoResponse == [status |-> "none", body |-> <<>>]

NewRequest == [kind |-> "", pc |-> "new", targets |-> <<>>, rpcs |-> <<>>,
               warnings |-> 0, response |-> NoResponse, writes |-> <<>>]

\* const MAX_USER_TO_DISPLAY = 200
MaxUserToDisplay == 200

\* totals adminService.getMembersOfWorld may report
MemberTotals == {0, 1, MaxUserToDisplay, MaxUserToDisplay + 1}

Rpc(roomId, client) ==
    [roomId |-> roomId, client |-> client, st |-> "pending", value |-> <<>>,
     reason |-> ""]

\* the handle the registry holds for a room, 0 when it holds none
Cached(registry, roomId) ==
    IF \E k \in 1..Len(registry) : registry[k].roomId = roomId
    THEN registry[CHOOSE k \in 1..Len(registry) : registry[k].roomId = roomId].client
    ELSE 0

\* mutant of GetClient: every lookup creates a handle
GetClientAlwaysNew(registry, roomId) ==
    [client |-> Len(registry) + 1,
     registry |-> Append(registry, [roomId |-> roomId, client |-> Len(registry) + 1])]

\* apiClientRepository.getClient(roomId): the cached handle of the room,
\* created and cached by the first lookup
GetClient(registry, roomId) ==
    IF Cached(registry, roomId) # 0
    THEN [client |-> Cached(registry, roomId), registry |-> registry]
    ELSE [client |-> Len(registry) + 1,
          registry |-> Append(registry,
                              [roomId |-> roomId, client |-> Len(registry) + 1])]

\* apiClientRepository.getAllClients(): every handle the registry holds
GetAllClients(registry) == registry

\* mutant of IssueAll: only the first target is called
IssueFirstOnly(targets, registry, rpcs) ==
    IF targets = <<>> THEN [registry |-> registry, rpcs |-> rpcs]
    ELSE LET g == GetClient(registry, Head(targets))
         IN [registry |-> g.registry,
             rpcs |-> Append(rpcs, Rpc(Head(targets), g.client))]

\* targets.map((roomId) => apiClientRepository.getClient(roomId).then(...)):
\* one lookup and one call per target, in order
RECURSIVE IssueAll(_, _, _)
IssueAll(targets, registry, rpcs) ==
    IF targets = <<>> THEN [registry |-> registry, rpcs |-> rpcs]
    ELSE LET g == GetClient(registry, Head(targets))
         IN IssueAll(Tail(targets), g.registry,
                     Append(rpcs, Rpc(Head(targets), g.client)))

\* POST /room/refresh, POST /chat/message (one target) and POST /message
\* (a target list), up to the await of the calls; none carries a deadline
Unicast(r, kind, targets) ==
    /\ requests[r].pc = "new"
    /\ LET issued == IssueAll(targets, roomManagerClients, <<>>)
       IN /\ roomManagerClients' = issued.registry
          /\ requests' = [requests EXCEPT ![r] =
                            [@ EXCEPT !.kind = kind, !.pc = "awaiting",
                                      !.targets = targets, !.rpcs = issued.rpcs]]

\* mutant of UnicastAnswer: the error of the call is swallowed
UnicastAnswerSwallow(r, i, err) ==
    /\ requests[r].pc = "awaiting"
    /\ requests[r].kind \in {"refresh", "chat", "message"}
    /\ i \in 1..Len(requests[r].rpcs)
    /\ requests[r].rpcs[i].st = "pending"
    /\ LET rpcs == [requests[r].rpcs EXCEPT
                        ![i].st = IF err THEN "rejected" ELSE "fulfilled"]
           all == \A k \in 1..Len(rpcs) : rpcs[k].st # "pending"
       IN requests' = [requests EXCEPT ![r] =
            [@ EXCEPT !.rpcs = rpcs,
                      !.pc = IF all THEN "done" ELSE "awaiting",
                      !.response = IF all THEN [status |-> "ok", body |-> <<>>]
                                   ELSE NoResponse]]
    /\ UNCHANGED roomManagerClients

\* the callback of a call of a unicast request: err ? rej(err) : res(), then
\* the continuation of the handler once Promise.all settles
UnicastAnswer(r, i, err) ==
    /\ requests[r].pc = "awaiting"
    /\ requests[r].kind \in {"refresh", "chat", "message"}
    /\ i \in 1..Len(requests[r].rpcs)
    /\ requests[r].rpcs[i].st = "pending"
    /\ LET rpcs == [requests[r].rpcs EXCEPT
                        ![i].st = IF err THEN "rejected" ELSE "fulfilled"]
           all == \A k \in 1..Len(rpcs) : rpcs[k].st = "fulfilled"
       IN requests' = [requests EXCEPT ![r] =
            [@ EXCEPT !.rpcs = rpcs,
                      !.pc = IF err \/ all THEN "done" ELSE "awaiting",
                      !.response = IF err THEN [status |-> "error", body |-> <<>>]
                                   ELSE IF all THEN [status |-> "ok", body |-> <<>>]
                                   ELSE NoResponse]]
    /\ UNCHANGED roomManagerClients

\* mutant of MergeRooms: a room that is in the aggregate keeps its count
RECURSIVE MergeRoomsKeepFirst(_, _)
MergeRoomsKeepFirst(rooms, list) ==
    IF list = <<>> THEN rooms
    ELSE LET d == Head(list)
         IN MergeRoomsKeepFirst([id \in DOMAIN rooms \cup {d.roomId} |->
                                    IF id \in DOMAIN rooms THEN rooms[id] ELSE d.nbUsers],
                                Tail(list))

\* rooms[room.roomId] = room.nbUsers over the fulfilled results, in order
RECURSIVE MergeRooms(_, _)
MergeRooms(rooms, list) ==
    IF list = <<>> THEN rooms
    ELSE LET d == Head(list)
         IN MergeRooms([id \in DOMAIN rooms \cup {d.roomId} |->
                            IF id = d.roomId THEN d.nbUsers ELSE rooms[id]],
                       Tail(list))

RECURSIVE Aggregate(_, _)
Aggregate(rooms, rpcs) ==
    IF rpcs = <<>> THEN rooms
    ELSE Aggregate(IF Head(rpcs).st = "fulfilled"
                   THEN MergeRooms(rooms, Head(rpcs).value)
                   ELSE rooms,
                   Tail(rpcs))

\* console.warn for every rejected result
Warnings(rpcs) == Cardinality({k \in 1..Len(rpcs) : rpcs[k].st = "rejected"})

\* mutant of Respond: one rejected call fails the request (Promise.all)
RespondAllOrNothing(kind, rpcs) ==
    IF Warnings(rpcs) > 0
    THEN [pc |-> "done", warnings |-> 0,
          response |-> [status |-> "error", body |-> <<>>]]
    ELSE [pc |-> "done", warnings |-> 0,
          response |-> [status |-> "ok",
                        body |-> IF kind = "rooms" THEN Aggregate(<<>>, rpcs) ELSE <<>>]]

\* the handler of GET /rooms and POST /global/event after
\* await Promise.allSettled(promises)
Respond(kind, rpcs) ==
    [pc |-> "done",
     warnings |-> Warnings(rpcs),
     response |-> [status |-> "ok",
                   body |-> IF kind = "rooms" THEN Aggregate(<<>>, rpcs) ELSE <<>>]]

\* what Promise.allSettled(promises) waits for
AllAnswered(rpcs) == \A k \in 1..Len(rpcs) : rpcs[k].st # "pending"

AfterAllSettled(req, rpcs) ==
    IF AllAnswered(rpcs)
    THEN LET a == Respond(req.kind, rpcs)
         IN [req EXCEPT !.rpcs = rpcs, !.pc = a.pc, !.warnings = a.warnings,
                        !.response = a.response]
    ELSE [req EXCEPT !.rpcs = rpcs]

\* GET /rooms and POST /global/event, up to the await: one call per handle of
\* the registry, each with deadline Date.now() + 1000
Broadcast(r, kind) ==
    /\ requests[r].pc = "new"
    /\ LET clients == GetAllClients(roomManagerClients)
           rpcs == [k \in 1..Len(clients) |-> Rpc(clients[k].roomId, clients[k].client)]
       IN requests' = [requests EXCEPT ![r] =
            AfterAllSettled([@ EXCEPT !.kind = kind, !.pc = "awaiting"], rpcs)]
    /\ UNCHANGED roomManagerClients

\* mutant of BroadcastAnswer: the error of one call ends the calls that are
\* still pending
BroadcastAnswerCancels(r, i, err, result) ==
    /\ requests[r].pc = "awaiting"
    /\ requests[r].kind \in {"rooms", "event"}
    /\ i \in 1..Len(requests[r].rpcs)
    /\ requests[r].rpcs[i].st = "pending"
    /\ LET req == requests[r]
           rpcs == [k \in 1..Len(req.rpcs) |->
                IF k = i
                THEN [req.rpcs[k] EXCEPT
                        !.st = IF err # "" THEN "rejected" ELSE "fulfilled",
                        !.reason = err,
                        !.value = IF err # "" \/ req.kind = "event" THEN <<>> ELSE result]
                ELSE IF err # "" /\ req.rpcs[k].st = "pending"
                THEN [req.rpcs[k] EXCEPT !.st = "rejected", !.reason = "CANCELLED"]
                ELSE req.rpcs[k]]
       IN requests' = [requests EXCEPT ![r] = AfterAllSettled(req, rpcs)]
    /\ UNCHANGED roomManagerClients

\* the callback (error, result) of a call of a broadcast; err is "" when the
\* call succeeded
BroadcastAnswer(r, i, err, result) ==
    /\ requests[r].pc = "awaiting"
    /\ requests[r].kind \in {"rooms", "event"}
    /\ i \in 1..Len(requests[r].rpcs)
    /\ requests[r].rpcs[i].st = "pending"
    /\ LET req == requests[r]
           rpcs == [req.rpcs EXCEPT
                ![i].st = IF err # "" THEN "rejected" ELSE "fulfilled",
                ![i].reason = err,
                ![i].value = IF err # "" \/ req.kind = "event" THEN <<>> ELSE result]
       IN requests' = [requests EXCEPT ![r] = AfterAllSettled(req, rpcs)]
    /\ UNCHANGED roomManagerClients

\* mutant of DeadlineExceeded: the call is issued without a deadline
DeadlineNever(r, i) == FALSE /\ BroadcastAnswer(r, i, "DEADLINE_EXCEEDED", <<>>)

\* the deadline of a call of a broadcast passes: gRPC ends the call with
\* DEADLINE_EXCEEDED, and the callback gets the error
DeadlineExceeded(r, i) == BroadcastAnswer(r, i, "DEADLINE_EXCEEDED", <<>>)

\* the res.status(..).json(..) calls of GET /worlds/:worldslug/members, in the
\* order the handler makes them: no guard returns
MembersWrites(total) ==
    (IF total > MaxUserToDisplay
     THEN <<[status |-> "403", body |-> "message"]>> ELSE <<>>)
    \o (IF total = 0
        THEN <<[status |-> "204", body |-> "message"]>> ELSE <<>>)
    \o <<[status |-> "202", body |-> "members"]>>

\* GET /worlds/:worldslug/members; the client is sent the first answer written
Members(r, total) ==
    /\ requests[r].pc = "new"
    /\ requests' = [requests EXCEPT ![r] =
                        [@ EXCEPT !.kind = "members", !.pc = "done",
                                  !.writes = MembersWrites(total),
                                  !.response = Head(MembersWrites(total))]]
    /\ UNCHANGED roomManagerClients

InitAdmin ==
    /\ requests = [r \in ReqIds |-> NewRequest]
    /\ roomManagerClients = <<>>

\* requests are taken in the order of their ids
MayStart(r) == \A q \in ReqIds : q < r => requests[q].pc # "new"

UnicastStep ==
    /\ \E r \in ReqIds :
          /\ MayStart(r)
          /\ \/ \E kind \in {"refresh", "chat"} : \E room \in Rooms :
                    Unicast(r, kind, <<room>>)
             \/ \E targets \in TargetLists : Unicast(r, "message", targets)
    /\ UNCHANGED <<execVars, frontVars>>

UnicastAnswerStep ==
    /\ \E r \in ReqIds : \E i \in 1..Len(requests[r].rpcs) : \E err \in BOOLEAN :
          UnicastAnswer(r, i, err)
    /\ UNCHANGED <<execVars, frontVars>>

BroadcastStep ==
    /\ \E r \in ReqIds : \E kind \in {"rooms", "event"} :
          MayStart(r) /\ Broadcast(r, kind)
    /\ UNCHANGED <<execVars, frontVars>>

BroadcastAnswerStep ==
    /\ \E r \in ReqIds : \E i \in 1..Len(requests[r].rpcs) :
          \/ BroadcastAnswer(r, i, "UNAVAILABLE", <<>>)
          \/ \E result \in RoomsLists : BroadcastAnswer(r, i, "", result)
    /\ UNCHANGED <<execVars, frontVars>>

DeadlineOf(r, i) == DeadlineExceeded(r, i) /\ UNCHANGED <<execVars, frontVars>>

MembersStep ==
    /\ \E r \in ReqIds : \E total \in MemberTotals : MayStart(r) /\ Members(r, total)
    /\ UNCHANGED <<execVars, frontVars>>

DeadlineStep == \E r \in ReqIds : \E i \in 1..Len(requests[r].rpcs) : DeadlineOf(r, i)

(***************************************************************************)
(* ScreenSharingStore: the requested state, the constraints store, the     *)
(* local stream store and the stream the module holds                      *)
(***************************************************************************)

\* capture requests of a behaviour
MaxCaptures == 3

\* sizes of the peer store
PeerCounts == {0, 1}

\* let currentStream: MediaStream | null = null; the stream of the k-th
\* capture request is written k
NoStream == 0

\* the stores and module variables as one value, so that a callback that
\* runs inside another one is a composition
ScreenState ==
    [requested |-> requestedScreenSharingState,
     external |-> inExternalServiceStore,
     peers |-> peerStore,
     previous |-> previousComputedVideoConstraint,
     constraints |-> screenSharingConstraintsStore,
     local |-> screenSharingLocalStreamStore,
     current |-> currentStream,
     captures |-> captures]

NoLocalStream == [type |-> "success", stream |-> NoStream]

\* stopScreenSharing: stops the tracks of currentStream and forgets it
StopScreenSharing(s) ==
    [s EXCEPT !.captures = IF s.current # NoStream /\ s.captures[s.current] = "live"
                           THEN [@ EXCEPT ![s.current] = "stopped"]
                           ELSE @,
              !.current = NoStream]

\* the callback of screenSharingLocalStreamStore, run at each set of the
\* constraints store. With no video it stops and publishes null; the
\* disableScreenSharing it calls runs the constraints callback again, which
\* finds the constraint it computed before and sets nothing. With video it
\* asks the browser for a capture and runs the async function up to its await
LocalStream(s) ==
    IF ~s.constraints
    THEN [StopScreenSharing(s) EXCEPT !.requested = FALSE, !.local = NoLocalStream]
    ELSE [StopScreenSharing(s) EXCEPT !.captures = Append(@, "pending")]

\* the callback of screenSharingConstraintsStore (the audio constraint is
\* false on every path)
Constraints(s) ==
    LET currentVideoConstraint == s.requested /\ ~s.external /\ s.peers # 0
    IN IF s.previous # currentVideoConstraint
       THEN LocalStream([s EXCEPT !.previous = currentVideoConstraint,
                                  !.constraints = currentVideoConstraint])
       ELSE s

EnableScreenSharing(s) == Constraints([s EXCEPT !.requested = TRUE])

DisableScreenSharing(s) == Constraints([s EXCEPT !.requested = FALSE])

SetPeers(s, size) == Constraints([s EXCEPT !.peers = size])

SetInExternalService(s, value) == Constraints([s EXCEPT !.external = value])

\* the await of the k-th capture returns a stream: it is held and published
CaptureResolved(s, k) ==
    [s EXCEPT !.captures[k] = "live",
              !.current = k,
              !.local = [type |-> "success", stream |-> k]]

\* the await of the k-th capture throws: the catch block
CaptureRejected(s, k) ==
    LET disabled == Constraints([s EXCEPT !.captures[k] = "rejected",
                                          !.current = NoStream,
                                          !.requested = FALSE])
    IN [disabled EXCEPT !.local = [type |-> "error", stream |-> NoStream]]

\* track.onended of the stream of the k-th capture
TrackEnded(s, k) ==
    LET stopped == StopScreenSharing([s EXCEPT !.captures[k] = "ended"])
        disabled == Constraints([stopped EXCEPT !.requested = FALSE])
    IN [disabled EXCEPT !.previous = FALSE, !.local = NoLocalStream]

InitScreen ==
    /\ requestedScreenSharingState = FALSE
    /\ inExternalServiceStore = FALSE
    /\ peerStore = 0
    /\ previousComputedVideoConstraint = FALSE
    /\ screenSharingConstraintsStore = FALSE
    /\ screenSharingLocalStreamStore = NoLocalStream
    /\ currentStream = NoStream
    /\ captures = <<>>

\* the step to the stores and module variables of s
ScreenStep(s) ==
    /\ Len(s.captures) <= MaxCaptures
    /\ requestedScreenSharingState' = s.requested
    /\ inExternalServiceStore' = s.external
    /\ peerStore' = s.peers
    /\ previousComputedVideoConstraint' = s.previous
    /\ screenSharingConstraintsStore' = s.constraints
    /\ screenSharingLocalStreamStore' = s.local
    /\ currentStream' = s.current
    /\ captures' = s.captures
    /\ UNCHANGED <<execVars, adminVars, chatVars>>

EnableStep == ScreenStep(EnableScreenSharing(ScreenState))

DisableStep == ScreenStep(DisableScreenSharing(ScreenState))

PeersStep == \E size \in PeerCounts : ScreenStep(SetPeers(ScreenState, size))

ExternalServiceStep ==
    \E value \in BOOLEAN : ScreenStep(SetInExternalService(ScreenState, value))

CaptureResolvedStep ==
    \E k \in 1..Len(captures) :
        captures[k] = "pending" /\ ScreenStep(CaptureResolved(ScreenState, k))

CaptureRejectedStep ==
    \E k \in 1..Len(captures) :
        captures[k] = "pending" /\ ScreenStep(CaptureRejected(ScreenState, k))

TrackEndedStep ==
    \E k \in 1..Len(captures) :
        captures[k] = "live" /\ ScreenStep(TrackEnded(ScreenState, k))

(***************************************************************************)
(* MatrixChatRoom: the typing members of a room                            *)
(***************************************************************************)

\* this.matrixRoom.client.getSafeUserId()
MyUserId == "me"

UserIds == {MyUserId, "u1", "u2", "u3", "u4"}

\* the RoomMember of a typing event; member.user is the User object of the
\* member, <<>> when the client holds none
RoomMembers ==
    {[userId |-> u, user |-> w] : u \in UserIds, w \in {<<>>}} \cup
    {[userId |-> u, user |-> <<[userId |-> u]>>] : u \in UserIds}

NoMember == [userId |-> "", user |-> <<>>]

\* the entry of a typing member (name and avatarUrl are left out)
TypingMemberInformation(typingMember) == [id |-> typingMember.userId]

IsAlreadyTyping(list, id) == \E k \in 1..Len(list) : list[k].id = id

RECURSIVE Filter(_, _)
Filter(list, id) ==
    IF list = <<>> THEN <<>>
    ELSE IF Head(list).id # id THEN <<Head(list)>> \o Filter(Tail(list), id)
    ELSE Filter(Tail(list), id)

\* mutant of OnMemberTyping: the member is appended whether it is in the
\* list or not
OnMemberTypingAppends(list, m) ==
    IF m.user = <<>> THEN list
    ELSE LET information == TypingMemberInformation(m.user[1])
         IN IF information.id = "" \/ information.id = MyUserId THEN list
            ELSE Append(list, information)

\* onMemberTyping(event, member) on the typing members list
OnMemberTyping(list, m) ==
    IF m.user = <<>> THEN list
    ELSE LET information == TypingMemberInformation(m.user[1])
         IN IF information.id = "" \/ information.id = MyUserId THEN list
            ELSE IF IsAlreadyTyping(list, information.id)
                 THEN Filter(list, information.id)
                 ELSE Append(list, information)

InitChat ==
    /\ typingMembers = <<>>
    /\ member = NoMember

TypingStep ==
    /\ \E m \in RoomMembers :
          /\ typingMembers' = OnMemberTyping(typingMembers, m)
          /\ member' = m
    /\ UNCHANGED <<execVars, adminVars, screenVars>>

InitFront == InitScreen /\ InitChat

(***************************************************************************)
(* Specifications                                                          *)
(***************************************************************************)

\* one edit in detail
Init == InitExec /\ InitAdmin /\ InitFront /\ gameMapArea \in InitialAreas

Next ==
    \/ ExecuteStep(SingleEdits, ProposedConfigs)
    \/ SettleStep(SingleEdits)
    \/ DispatchCallbackStep

Spec == Init /\ [][Next]_vars

\* the diff and the reduce alone, on every pair of a previous and a proposed
\* config
NextCompare == ExecuteStep(SingleEdits, ProposedConfigs)

SpecCompare == Init /\ [][NextCompare]_vars

\* edits that notify: two edits, each adding a resource-backed property to
\* the area as it finds it
NotifyProposals ==
    {[name |-> 0, properties |-> <<Prop(1, "u", NoSD, 0)>>],
     [name |-> 0, properties |-> <<Prop(1, "u", NoSD, 0), Prop(2, "u", NoSD, 0)>>]}

InitNotify == InitExec /\ InitAdmin /\ InitFront /\ gameMapArea = NullConfig

NextNotify ==
    \/ ExecuteStep(Edits, NotifyProposals)
    \/ SettleStep(Edits)
    \/ DispatchCallbackStep

SpecNotify == InitNotify /\ [][NextNotify]_vars

\* concurrent edits on the shared limiter
InitLimiter == InitExec /\ InitAdmin /\ InitFront /\ gameMapArea = LimiterArea

NextLimiter ==
    \/ ExecuteStep(Edits, LimiterProposals)
    \/ SettleStep(Edits)

SpecLimiter == InitLimiter /\ [][NextLimiter]_vars

\* every HTTP call that was started settles: an edit that has a running call
\* sees one of its running calls settle
SpecLimiterFair == SpecLimiter /\ \A e \in Edits : WF_vars(SettleStep({e}))

\* the administrative endpoints
InitAdminSpec == InitExec /\ InitAdmin /\ InitFront /\ gameMapArea = NullConfig

NextAdmin ==
    \/ UnicastStep
    \/ UnicastAnswerStep
    \/ BroadcastStep
    \/ BroadcastAnswerStep
    \/ DeadlineStep
    \/ MembersStep

SpecAdmin == InitAdminSpec /\ [][NextAdmin]_vars

\* the screen-sharing stores
InitScreenSpec == InitExec /\ InitAdmin /\ InitFront /\ gameMapArea = NullConfig

NextScreen ==
    \/ EnableStep
    \/ DisableStep
    \/ PeersStep
    \/ ExternalServiceStep
    \/ CaptureResolvedStep
    \/ CaptureRejectedStep
    \/ TrackEndedStep

SpecScreen == InitScreenSpec /\ [][NextScreen]_vars

\* the typing members of a chat room
InitChatSpec == InitExec /\ InitAdmin /\ InitFront /\ gameMapArea = NullConfig

NextChat == TypingStep

SpecChat == InitChatSpec /\ [][NextChat]_vars

\* a call with a deadline does not stay pending for ever
SpecAdminFair ==
    SpecAdmin /\ \A r \in ReqIds : \A i \in 1..Cardinality(Rooms) : WF_vars(DeadlineOf(r, i))

(***************************************************************************)
(* Properties of execute and of the limiter                                *)
(***************************************************************************)

Running == {c \in UNION {{<<e, i>> : i \in 1..Len(calls[e])} : e \in Edits} :
                calls[c[1]][c[2]].st = "running"}

Logged(e, ev) == \E k \in 1..Len(events[e]) : events[e][k] = ev

Count(e, ev) == Cardinality({k \in 1..Len(events[e]) : events[e][k] = ev})

EveryCallRaised(e) ==
    /\ calls[e] # <<>>
    /\ AllSettled(calls[e])
    /\ outcomes[e] = {"rejected"}

\* the entry of a property list with the given id
Entries(props, id) == {props[k] : k \in {j \in 1..Len(props) : props[j].id = id}}

\* C1: at every moment at most 10 calls admitted by the shared limiter are in
\* flight, whatever the number of scheduled calls and of concurrent edits
C1_AtMostTenInFlight ==
    /\ Cardinality(Running) <= Concurrency
    /\ activeCount = Cardinality(Running)

\* the limiter is full, with calls of two edits in flight and calls waiting
C1_Witness ==
    /\ Cardinality(Running) = Concurrency
    /\ queue # <<>>
    /\ \A e \in Edits : \E c \in Running : c[1] = e

\* C2 as stated: when every scheduled call of an edit raised, execute does
\* not complete normally
C2_AllRaisedAborts ==
    \A e \in Edits : EveryCallRaised(e) => pc[e] # "done"

\* C2 amended: when every scheduled call of an edit raised, execute logged
\* the error once and completed normally with the local commit
C2_AllRaisedLoggedAndCommitted ==
    \A e \in Edits :
        EveryCallRaised(e) =>
            /\ pc[e] = "done"
            /\ events[e] = <<"error", "commit">>
            /\ Len(committed[e]) = 1

\* an edit that scheduled two calls, both of which raised
C2_Witness ==
    \E e \in Edits : EveryCallRaised(e) /\ Len(calls[e]) >= 2

\* C3: whatever the outcomes of the calls, execute performs the local commit
\* exactly once, and a raised error is logged and does not stop the commit
C3_CommitsOnceWhateverOutcome ==
    \A e \in Edits :
        /\ pc[e] \in {"idle", "awaiting", "done"}
        /\ Len(committed[e]) = Count(e, "commit")
        /\ pc[e] = "done" <=> Len(committed[e]) = 1
        /\ pc[e] # "done" => committed[e] = <<>>
        /\ "rejected" \in outcomes[e] =>
              /\ pc[e] = "done"
              /\ Count(e, "error") = 1
              /\ Len(committed[e]) = 1

\* an edit whose delete call raised is done and committed
C3_Witness ==
    \E e \in Edits :
        /\ pc[e] = "done"
        /\ Len(committed[e]) = 1
        /\ "rejected" \in outcomes[e]
        /\ \E i \in 1..Len(calls[e]) : calls[e][i].kind = "delete"

\* C4: the notification of an edit is dispatched only when every call the
\* edit scheduled has settled
C4_NotifyAfterAllSettled ==
    /\ \A e \in Edits : Logged(e, "notify") => AllSettled(calls[e])
    /\ \A k \in 1..Len(notifications) : AllSettled(calls[notifications[k].edit])

\* an edit with two calls has dispatched its notification
C4_Witness ==
    \E e \in Edits : Logged(e, "notify") /\ Len(calls[e]) >= 2

\* C9: a create call answered by an empty or schema-invalid body does not set
\* shouldNotify and leaves the serverData of its property unset, in the
\* reconciled config and in what is committed
C9_MalformedCreateIsNoop ==
    \A e \in Edits : \A i \in 1..Len(calls[e]) :
        LET c == calls[e][i] IN
        (c.kind = "post" /\ c.st = "settled" /\ c.resp \in {"empty", "invalid"}) =>
            /\ \A p \in Entries(newConfig[e].properties, c.body.id) :
                    p.serverData = NoSD
            /\ \A k \in 1..Len(committed[e]) :
                    \A p \in Entries(committed[e][k].properties, c.body.id) :
                        p.serverData = NoSD
            /\ shouldNotifyUpdate[e] =>
                    \E j \in 1..Len(calls[e]) :
                        j # i /\ calls[e][j].kind = "post" /\ calls[e][j].resp = "valid"

\* a create for a property the caller gave serverData was answered by a
\* schema-invalid body, and the edit is done
C9_Witness ==
    \E e \in Edits : \E i \in 1..Len(calls[e]) :
        /\ calls[e][i].kind = "post"
        /\ calls[e][i].resp = "invalid"
        /\ pc[e] = "done"
        /\ ~shouldNotifyUpdate[e]
        /\ \E p \in Entries(proposedConfig[e].properties, calls[e][i].body.id) :
                p.serverData = CallerSD

\* C10 as stated: an edit dispatches a notification only if one of its create
\* responses carried serverData
C10_NotifyNeedsServerData ==
    \A e \in Edits :
        Logged(e, "notify") =>
            \E i \in 1..Len(calls[e]) :
                /\ calls[e][i].kind = "post"
                /\ calls[e][i].resp = "valid"
                /\ calls[e][i].data.serverData # NoSD

(***************************************************************************)
(* Properties of the administrative endpoints                              *)
(***************************************************************************)

IsBroadcast(r) == requests[r].kind \in {"rooms", "event"}

RpcsIn(r, st) == {k \in 1..Len(requests[r].rpcs) : requests[r].rpcs[k].st = st}

\* the (roomId, nbUsers) pairs reported by the calls of r that succeeded
Reported(r) ==
    UNION {{<<requests[r].rpcs[k].value[j].roomId, requests[r].rpcs[k].value[j].nbUsers>> :
                j \in 1..Len(requests[r].rpcs[k].value)} : k \in RpcsIn(r, "fulfilled")}

\* C5: a broadcast never fails as a whole; it answers normally once every call
\* has settled, its aggregate holds what the succeeded calls reported and
\* nothing else, and one warning is logged per failed call
C5_BroadcastPartialFailure ==
    \A r \in ReqIds : IsBroadcast(r) =>
        /\ requests[r].response.status # "error"
        /\ requests[r].pc = "done" <=> requests[r].response.status = "ok"
        /\ requests[r].pc = "done" <=> RpcsIn(r, "pending") = {}
        /\ requests[r].pc = "done" =>
              /\ requests[r].warnings = Cardinality(RpcsIn(r, "rejected"))
              /\ requests[r].kind = "rooms" =>
                    /\ DOMAIN requests[r].response.body = {p[1] : p \in Reported(r)}
                    /\ \A id \in DOMAIN requests[r].response.body :
                          <<id, requests[r].response.body[id]>> \in Reported(r)

\* GET /rooms over two handles answered with one call failed, one succeeded
C5_Witness ==
    \E r \in ReqIds :
        /\ requests[r].kind = "rooms"
        /\ requests[r].pc = "done"
        /\ Cardinality(RpcsIn(r, "rejected")) = 1
        /\ Cardinality(RpcsIn(r, "fulfilled")) = 1
        /\ requests[r].warnings = 1
        /\ requests[r].response.body # <<>>

\* C6: every broadcast eventually answers its caller, even when room servers
\* never respond: the deadline ends each pending call
C6_BroadcastEventuallyAnswers ==
    \A r \in ReqIds :
        (IsBroadcast(r) /\ requests[r].pc = "awaiting") ~> (requests[r].pc = "done")

\* a broadcast answered although the deadline of every one of its calls passed
C6_Witness ==
    \E r \in ReqIds :
        /\ IsBroadcast(r)
        /\ requests[r].pc = "done"
        /\ Len(requests[r].rpcs) = 2
        /\ \A k \in 1..Len(requests[r].rpcs) :
              requests[r].rpcs[k].reason = "DEADLINE_EXCEEDED"

IsUnicast(r) == requests[r].kind \in {"refresh", "chat"}

\* C7: the failure of the call of a unicast is surfaced as an error, and "ok"
\* is sent only if the call succeeded
C7_UnicastSurfacesFailure ==
    \A r \in ReqIds : IsUnicast(r) =>
        /\ Len(requests[r].rpcs) = 1
        /\ requests[r].response.status = "ok" => requests[r].rpcs[1].st = "fulfilled"
        /\ requests[r].rpcs[1].st = "rejected" =>
              requests[r].pc = "done" /\ requests[r].response.status = "error"
        /\ requests[r].rpcs[1].st = "fulfilled" =>
              requests[r].pc = "done" /\ requests[r].response.status = "ok"

\* a room refresh whose call failed, and a chat prompt whose call succeeded
C7_Witness ==
    \E r, q \in ReqIds :
        /\ requests[r].kind = "refresh"
        /\ requests[r].rpcs[1].st = "rejected"
        /\ requests[r].response.status = "error"
        /\ requests[q].kind = "chat"
        /\ requests[q].response.status = "ok"

AllRpcs == UNION {{requests[r].rpcs[k] : k \in 1..Len(requests[r].rpcs)} : r \in ReqIds}

\* C8: however the lookups of a room id interleave, one handle is created for
\* it, and every caller, first or later, gets that handle
C8_OneHandlePerRoom ==
    /\ \A room \in Rooms :
          Cardinality({k \in 1..Len(roomManagerClients) :
                          roomManagerClients[k].roomId = room}) <= 1
    /\ \A j, k \in 1..Len(roomManagerClients) :
          roomManagerClients[j].client = roomManagerClients[k].client => j = k
    /\ \A c \in AllRpcs : c.client = Cached(roomManagerClients, c.roomId)
    /\ \A c, d \in AllRpcs : c.roomId = d.roomId => c.client = d.client

\* two requests in flight looked up the same room, one of them twice
C8_Witness ==
    \E r, q \in ReqIds :
        /\ r # q
        /\ requests[r].pc = "awaiting" /\ requests[q].pc = "awaiting"
        /\ Len(requests[r].rpcs) = 2
        /\ \A k \in 1..2 : requests[r].rpcs[k].roomId = "b"
        /\ requests[q].kind = "refresh"
        /\ requests[q].rpcs[1].roomId = "b"
        /\ requests[q].rpcs[1].client = requests[r].rpcs[1].client

(***************************************************************************)
(* Properties of the reduce over the patch                                 *)
(***************************************************************************)

Started == {e \in Edits : pc[e] # "idle"}

CallsOf(e, kind) == {i \in 1..Len(calls[e]) : calls[e][i].kind = kind}

\* the indexes of the proposed list that the previous list does not have
AddedIndexes(e) ==
    (Len(oldConfig[e].properties) + 1)..Len(proposedConfig[e].properties)

\* C11: every added property that has a ressourceUrl gets a create call whose
\* body is the property without serverData, no create body carries serverData,
\* and as long as the create call has not settled the entry of the proposed
\* config with the same id has no serverData, whatever the caller supplied
C11_CreateCarriesNoServerData ==
    \A e \in Started :
        /\ \A k \in AddedIndexes(e) :
              LET p == proposedConfig[e].properties[k]
              IN p.ressourceUrl # NoUrl =>
                    \E i \in CallsOf(e, "post") :
                        calls[e][i].body = [p EXCEPT !.serverData = NoSD]
        /\ \A i \in CallsOf(e, "post") :
              /\ calls[e][i].body.serverData = NoSD
              /\ calls[e][i].st # "settled" =>
                    \A p \in Entries(newConfig[e].properties, calls[e][i].body.id) :
                        p.serverData = NoSD

\* a create call is scheduled and not settled for a property the caller
\* proposed with a serverData of its own
C11_Witness ==
    \E e \in Started : \E i \in CallsOf(e, "post") :
        /\ calls[e][i].st # "settled"
        /\ \E k \in AddedIndexes(e) :
              /\ proposedConfig[e].properties[k].id = calls[e][i].body.id
              /\ proposedConfig[e].properties[k].serverData = CallerSD

PropsOf(cfg) == {cfg.properties[k] : k \in 1..Len(cfg.properties)}

\* the serverData the schema-valid create responses of an edit carried
ResponseServerData(e) ==
    {calls[e][i].data.serverData :
        i \in {j \in CallsOf(e, "post") : calls[e][j].resp = "valid"}} \ {NoSD}

\* C12 as stated: in a committed config, the serverData of every property the
\* edit added or changed is absent, or comes from a schema-valid create
\* response of the edit, or is what the area index held for the property's
\* id; it is never the value the caller supplied
C12_ServerDataNeverFromCaller ==
    \A e \in Edits : \A k \in 1..Len(committed[e]) :
        \A p \in PropsOf(committed[e][k]) \ PropsOf(oldConfig[e]) :
            \/ p.serverData = NoSD
            \/ p.serverData \in ResponseServerData(e)
            \/ p.serverData = CachedServerData(oldConfig[e], p.id)

\* the create calls of an edit answered by a schema-valid body with serverData
Reconciling(e) ==
    {i \in CallsOf(e, "post") :
        calls[e][i].resp = "valid" /\ calls[e][i].data.serverData # NoSD}

\* C13 as stated: once the create call of an added property was answered by a
\* schema-valid body with serverData, the entry of that property is the
\* proposed property with the serverData of the response and no other
\* difference, and the entries of the other ids are the proposed ones, with
\* the serverData the reduce gave them
C13_ResponseChangesOnlyServerData ==
    \A e \in Started :
        /\ \A i \in Reconciling(e) :
              Entries(newConfig[e].properties, calls[e][i].body.id) =
                {[p EXCEPT !.serverData = calls[e][i].data.serverData] :
                    p \in Entries(proposedConfig[e].properties, calls[e][i].body.id)}
        /\ \A k \in 1..Len(newConfig[e].properties) :
              (\A i \in Reconciling(e) :
                    calls[e][i].body.id # newConfig[e].properties[k].id) =>
                 \E sd \in {NoSD, proposedConfig[e].properties[k].serverData,
                              CachedServerData(oldConfig[e],
                                               proposedConfig[e].properties[k].id)} :
                    newConfig[e].properties[k] =
                        [proposedConfig[e].properties[k] EXCEPT !.serverData = sd]

\* C14: execute leaves oldConfig as it found it: when the reduce is over
\* oldConfig is still the area the command was built from, and no later step
\* of the edit writes to it
C14_OldConfigNotMutated ==
    [][\A e \in Edits :
          /\ (pc[e] = "idle" /\ pc'[e] # "idle") => oldConfig'[e] = gameMapArea
          /\ pc[e] # "idle" => oldConfig'[e] = oldConfig[e]]_vars

\* an edit is done that replaced fields of a property, removed a
\* resource-backed property, and committed a config other than the previous
C14_Witness ==
    \E e \in Edits :
        /\ pc[e] = "done"
        /\ CallsOf(e, "patch") # {}
        /\ CallsOf(e, "delete") # {}
        /\ committed[e] # <<>>
        /\ committed[e][1] # oldConfig[e]

\* C15 as stated: an edit schedules at most one resource call for a property,
\* also when several fields of the property differ between the previous and
\* the proposed config
C15_OneCallPerProperty ==
    \A e \in Started : \A id \in PropIds :
        Cardinality({i \in 1..Len(calls[e]) : calls[e][i].body.id = id}) <= 1

\* the indexes at which the diff reports a replace: a field both properties
\* have differs
ReplacedIndexes(e) ==
    {k \in 1..Len(oldConfig[e].properties) :
        /\ k <= Len(proposedConfig[e].properties)
        /\ \E j \in 1..Len(Fields) :
              LET f == Fields[j]
                  o == oldConfig[e].properties[k]
                  n == proposedConfig[e].properties[k]
              IN Has(o, f) /\ Has(n, f) /\ o[f] # n[f]}

\* C16: the serverData a replace puts on a property, and sends in the body of
\* the update call, is what the area index holds for the property with that
\* id, and none if the index has no property with that id; it is not the
\* value of another id nor of the property at the same index
C16_ReplaceRestoresCacheById ==
    \A e \in Started :
        /\ \A i \in CallsOf(e, "patch") :
              calls[e][i].body.serverData
                  = CachedServerData(oldConfig[e], calls[e][i].body.id)
        /\ \A k \in ReplacedIndexes(e) :
              /\ newConfig[e].properties[k].id = proposedConfig[e].properties[k].id
              /\ newConfig[e].properties[k].serverData
                    = CachedServerData(oldConfig[e], proposedConfig[e].properties[k].id)
              /\ proposedConfig[e].properties[k].ressourceUrl # NoUrl =>
                    \E i \in CallsOf(e, "patch") :
                        calls[e][i].body = newConfig[e].properties[k]

\* an update call was scheduled for a property whose cached serverData sits
\* at another index of the area than the property's own
C16_Witness ==
    \E e \in Started : \E k \in ReplacedIndexes(e) :
        \E j \in 1..Len(oldConfig[e].properties) :
            /\ j # k
            /\ oldConfig[e].properties[j].id = proposedConfig[e].properties[k].id
            /\ oldConfig[e].properties[j].serverData # NoSD
            /\ oldConfig[e].properties[k].serverData # NoSD
            /\ \E i \in CallsOf(e, "patch") :
                  /\ calls[e][i].body.id = proposedConfig[e].properties[k].id
                  /\ calls[e][i].body.serverData = oldConfig[e].properties[j].serverData

\* the indexes of the previous list the diff reports as removed: those the
\* proposed list does not have
RemovedIndexes(e) ==
    (Len(proposedConfig[e].properties) + 1)..Len(oldConfig[e].properties)

\* the edit does nothing but remove properties that have no ressourceUrl
OnlyRemovesWithoutUrl(e) ==
    /\ RemovedIndexes(e) # {}
    /\ proposedConfig[e].name = oldConfig[e].name
    /\ proposedConfig[e].properties =
          SubSeq(oldConfig[e].properties, 1, Len(proposedConfig[e].properties))
    /\ \A k \in RemovedIndexes(e) : oldConfig[e].properties[k].ressourceUrl = NoUrl

ApplyOperation(props, o) ==
    LET i == o.idx + 1
    IN IF o.top # "properties" THEN props
       ELSE IF o.field # ""
       THEN IF i \notin 1..Len(props) THEN props
            ELSE IF o.op = "remove"
                 THEN [props EXCEPT ![i][o.field] = NullProp[o.field]]
                 ELSE [props EXCEPT ![i][o.field] = o.value[o.field]]
       ELSE IF o.op = "add" /\ i \in 1..(Len(props) + 1)
       THEN SubSeq(props, 1, i - 1) \o <<o.value>> \o SubSeq(props, i, Len(props))
       ELSE IF o.op = "remove" /\ i \in 1..Len(props)
       THEN SubSeq(props, 1, i - 1) \o SubSeq(props, i + 1, Len(props))
       ELSE props

RECURSIVE ApplyPatch(_, _)
ApplyPatch(props, ops) ==
    IF ops = <<>> THEN props
    ELSE ApplyPatch(ApplyOperation(props, Head(ops)), Tail(ops))

\* C18: the operations jsonpatch.compare reports for a previous and a
\* proposed config, applied in their order to the property list of the
\* previous config, give the property list of the proposed config, also when
\* the two lists differ in length
C18_DiffRoundTrip ==
    \A e \in Started :
        ApplyPatch(oldConfig[e].properties,
                   Compare(oldConfig[e], proposedConfig[e]))
            = proposedConfig[e].properties

\* the diff of a two-property list against a shorter list whose first
\* property differs from the previous first one
C18_Witness ==
    \E e \in Started :
        /\ Len(oldConfig[e].properties) = 2
        /\ Len(proposedConfig[e].properties) = 1
        /\ proposedConfig[e].properties[1] # oldConfig[e].properties[1]
        /\ proposedConfig[e].properties[1].id = oldConfig[e].properties[2].id

\* the proposed config of an edit without its changes outside properties
SameProperties(e) == [proposedConfig[e] EXCEPT !.name = oldConfig[e].name]

\* what a call was scheduled with
Request(c) == <<c.kind, c.url, c.body>>

\* C19: the operations of the diff whose path is not under properties
\* schedule no call and change no property of the proposed config: the calls
\* and the properties the reduce leaves are those of the same edit without
\* its changes outside properties, and an edit whose property list is the
\* previous one schedules nothing and leaves the proposed properties as they
\* are
C19_OtherPathsAreInert ==
    \A e \in Started :
        LET r == ReduceEdit(oldConfig[e], SameProperties(e), oldConfig[e])
        IN /\ [i \in 1..Len(calls[e]) |-> Request(calls[e][i])]
                = [i \in 1..Len(r.acc) |-> Request(r.acc[i])]
           /\ newConfig[e].properties = r.props
           /\ newConfig[e].name = proposedConfig[e].name
           /\ proposedConfig[e].properties = oldConfig[e].properties =>
                 /\ calls[e] = <<>>
                 /\ newConfig[e] = proposedConfig[e]

\* an edit that changes the name of an area and keeps its resource-backed
\* properties
C19_Witness ==
    \E e \in Started :
        /\ proposedConfig[e].name # oldConfig[e].name
        /\ proposedConfig[e].properties = oldConfig[e].properties
        /\ \E p \in PropsOf(oldConfig[e]) :
              p.ressourceUrl # NoUrl /\ p.serverData # NoSD
        /\ pc[e] = "done"
        /\ committed[e] = <<proposedConfig[e]>>

\* the dispatches of the modify-area event of an edit
DispatchesOf(e) == {k \in 1..Len(notifications) : notifications[k].edit = e}

\* C20: an execute dispatches the modify-area event at most once, and a
\* dispatch that failed is not dispatched again; the failure is written to the
\* console and nothing else: execute has returned normally and its commit is
\* done
C20_DispatchOnceFailureLogged ==
    \A e \in Edits :
        /\ Cardinality(DispatchesOf(e)) <= 1
        /\ Count(e, "notify") = Cardinality(DispatchesOf(e))
        /\ \A k \in DispatchesOf(e) :
              /\ pc[e] = "done"
              /\ Count(e, "commit") = 1
              /\ committed[e] = <<newConfig[e]>>
              /\ notifications[k].st = "failed" <=> Logged(e, "dispatch-error")
              /\ Count(e, "dispatch-error") <= 1

\* the dispatch of an edit failed, after the edit was committed
C20_Witness ==
    \E e \in Edits : \E k \in DispatchesOf(e) :
        /\ notifications[k].st = "failed"
        /\ Logged(e, "dispatch-error")
        /\ pc[e] = "done"
        /\ committed[e] = <<newConfig[e]>>

(***************************************************************************)
(* Properties of the await, of the targets of the calls and of the         *)
(* notification                                                            *)
(***************************************************************************)

\* C21 as stated: an edit is committed only when every call it scheduled has
\* settled; no call of a committed edit is queued or running
C21_CommitAfterEveryCallSettled ==
    \A e \in Edits :
        committed[e] # <<>> => \A i \in 1..Len(calls[e]) : calls[e][i].st = "settled"

IdsOf(cfg) == {cfg.properties[k].id : k \in 1..Len(cfg.properties)}

\* the properties of the previous config whose id the proposed config lacks
RemovedById(e) == {p \in PropsOf(oldConfig[e]) : p.id \notin IdsOf(proposedConfig[e])}

\* the properties of the proposed config whose id the previous config lacks
AddedById(e) == {p \in PropsOf(proposedConfig[e]) : p.id \notin IdsOf(oldConfig[e])}

\* C22 as stated: every delete call of an edit goes to the ressourceUrl of,
\* and carries, a property of the previous config whose id the proposed
\* config no longer has, and every such property that has a ressourceUrl
\* gets exactly one delete call, wherever in the list it was
C22_DeleteTargetsRemovedById ==
    \A e \in Started :
        /\ \A i \in CallsOf(e, "delete") :
              /\ calls[e][i].body \in RemovedById(e)
              /\ calls[e][i].url = calls[e][i].body.ressourceUrl
        /\ \A p \in RemovedById(e) :
              p.ressourceUrl # NoUrl =>
                 Cardinality({i \in CallsOf(e, "delete") : calls[e][i].body = p}) = 1

\* C23 as stated: every create call of an edit is for a property of the
\* proposed config whose id the previous config did not have, and every such
\* property that has a ressourceUrl gets exactly one create call, wherever in
\* the list it was inserted
C23_CreateTargetsAddedById ==
    \A e \in Started :
        /\ \A i \in CallsOf(e, "post") :
              \E p \in AddedById(e) : calls[e][i].body.id = p.id
        /\ \A p \in AddedById(e) :
              p.ressourceUrl # NoUrl =>
                 Cardinality({i \in CallsOf(e, "post") : calls[e][i].body.id = p.id}) = 1

(***************************************************************************)
(* Properties of the queue of the limiter                                  *)
(***************************************************************************)

\* the calls that wait for a slot
Queued == {c \in UNION {{<<e, i>> : i \in 1..Len(calls[e])} : e \in Edits} :
              calls[c[1]][c[2]].st = "queued"}

IsSuffix(s, t) == \E n \in 0..Len(t) : s = SubSeq(t, n + 1, Len(t))

\* C24: the calls that wait are the queue of the limiter, which every step
\* leaves in the order of submission: the calls an edit submits are put
\* behind the waiting ones in the order of the reduce, and the calls that
\* start are taken from the front, those of concurrent edits included
C24_QueueIsFifo ==
    /\ [](/\ Queued = {queue[k] : k \in 1..Len(queue)}
          /\ Cardinality(Queued) = Len(queue)
          /\ queue # <<>> => activeCount = Concurrency)
    /\ [][\E e \in Edits :
            LET submitted == IF pc[e] = "idle"
                             THEN [i \in 1..Len(calls'[e]) |-> <<e, i>>]
                             ELSE <<>>
            IN IsSuffix(queue', queue \o submitted)]_vars

\* a call that waited was started when a call of the other edit settled, and
\* the call submitted after it still waits
C24_Witness ==
    \E e \in Edits : \E i \in 2..Len(calls[e]) :
        /\ queue = <<<<e, i>>>>
        /\ calls[e][i - 1].st = "running"
        /\ activeCount = Concurrency
        /\ \E d \in Edits \ {e} : \E j \in 1..Len(calls[d]) : calls[d][j].st = "settled"
        /\ \A j \in 1..Len(calls[e]) : calls[e][j].st # "settled"

\* C25: if every started call settles, every call submitted to the limiter
\* is started and every execute reaches its commit; a call that settled has
\* given its slot back: the slots taken are those of the running calls, and a
\* call waits only while every slot is taken
C25_EveryCallStartsEveryEditCommits ==
    /\ \A e \in Edits :
          (pc[e] = "awaiting") ~>
              (/\ committed[e] # <<>>
               /\ \A i \in 1..Len(calls[e]) : calls[e][i].st \in {"running", "settled"})
    /\ [](activeCount = Cardinality(Running))
    /\ [](queue # <<>> => Cardinality(Running) = Concurrency)

\* every call of the two edits has settled, after some of them had to wait,
\* and the two edits are committed
C25_Witness ==
    /\ \A e \in Edits :
          /\ committed[e] # <<>>
          /\ Len(calls[e]) = LimiterProps
          /\ \A i \in 1..Len(calls[e]) : calls[e][i].st = "settled"
    /\ 2 * LimiterProps > Concurrency
    /\ activeCount = 0

(***************************************************************************)
(* Properties of shouldNotifyUpdate and of the dispatch                    *)
(***************************************************************************)

\* C26: shouldNotifyUpdate is set, and the notification dispatched, only if
\* a create call of the edit was answered by a non-empty, schema-valid body;
\* the outcome of a delete or of an update call sets nothing, so an edit
\* without create call never notifies
C26_OnlyCreatesNotify ==
    \A e \in Edits :
        (shouldNotifyUpdate[e] \/ Logged(e, "notify") \/ DispatchesOf(e) # {}) =>
            \E i \in CallsOf(e, "post") :
                calls[e][i].st = "settled" /\ calls[e][i].resp = "valid"

\* an edit of a delete and an update call, both fulfilled, is committed and
\* has not notified
C26_Witness ==
    \E e \in Edits :
        /\ pc[e] = "done"
        /\ CallsOf(e, "post") = {}
        /\ CallsOf(e, "delete") # {}
        /\ CallsOf(e, "patch") # {}
        /\ outcomes[e] = {"fulfilled"}
        /\ AllSettled(calls[e])
        /\ ~Logged(e, "notify")

\* the create calls of an edit answered by an empty or a schema-invalid body
SoftFailed(e) ==
    {i \in CallsOf(e, "post") :
        calls[e][i].st = "settled" /\ calls[e][i].resp \in {"empty", "invalid"}}

\* no call of the edit raised
NoneRaised(e) ==
    /\ "rejected" \notin outcomes[e]
    /\ \A i \in CallsOf(e, "post") : calls[e][i].resp # "raised"

\* C27: a create call answered by an empty or schema-invalid body is
\* fulfilled, not rejected; when every call of an edit has settled and none
\* raised, the serverData of the valid responses is on their properties in
\* the committed config, the properties of the other creates have none, the
\* notification is dispatched if a create was answered by a valid body with
\* serverData, and the edit is committed without an error logged
C27_SoftFailuresDoNotRaise ==
    \A e \in Started :
        /\ (\A i \in 1..Len(calls[e]) : i \in CallsOf(e, "post") /\ calls[e][i].resp # "raised")
              => "rejected" \notin outcomes[e]
        /\ (AllSettled(calls[e]) /\ NoneRaised(e)) =>
              /\ pc[e] = "done"
              /\ ~Logged(e, "error")
              /\ Count(e, "commit") = 1
              /\ committed[e] = <<newConfig[e]>>
              /\ Reconciling(e) # {} => Count(e, "notify") = 1
              /\ \A i \in Reconciling(e) :
                    \A p \in Entries(committed[e][1].properties, calls[e][i].body.id) :
                        p.serverData = calls[e][i].data.serverData
              /\ \A i \in SoftFailed(e) :
                    \A p \in Entries(committed[e][1].properties, calls[e][i].body.id) :
                        p.serverData = NoSD

\* an edit of two creates, one answered by a valid body with serverData and
\* the other by an empty or schema-invalid body, is committed and has
\* notified
C27_Witness ==
    \E e \in Started :
        /\ pc[e] = "done"
        /\ Reconciling(e) # {}
        /\ SoftFailed(e) # {}
        /\ NoneRaised(e)
        /\ Logged(e, "notify")
        /\ \E p \in PropsOf(proposedConfig[e]) : p.serverData = CallerSD

\* C28 as stated: when the modify-area event of an edit is dispatched the
\* edit is committed already: in the order of what execute does, the dispatch
\* comes after the commit
C28_DispatchAfterCommit ==
    \A e \in Edits : \A k \in 1..Len(events[e]) :
        events[e][k] = "notify" => \E j \in 1..(k - 1) : events[e][j] = "commit"

\* C29 as stated: the notifications to the room address go through one
\* connection handle, created once and used again by every later notification
C29_OneHandleForNotifications ==
    \A k \in 1..Len(notifications) : \A j \in 1..Len(notifications) :
        notifications[k].client = notifications[j].client

(***************************************************************************)
(* Properties of the calls of a broadcast                                  *)
(***************************************************************************)

\* the (room, handle) pairs the calls of a request go to, in order
HandlesOf(rpcs) ==
    [k \in 1..Len(rpcs) |-> [roomId |-> rpcs[k].roomId, client |-> rpcs[k].client]]

\* C30: a broadcast issues one call to each handle the registry holds when
\* the handler runs, and to nothing else, all of them before it awaits any;
\* the answer, the failure or the deadline of one call changes the outcome
\* of that call only, and an outcome that was recorded stays as it is
C30_BroadcastCallsAreIndependent ==
    [][\A r \in ReqIds :
          /\ (requests[r].pc = "new" /\ requests'[r].kind \in {"rooms", "event"}) =>
                /\ HandlesOf(requests'[r].rpcs) = GetAllClients(roomManagerClients)
                /\ \A k \in 1..Len(requests'[r].rpcs) :
                      requests'[r].rpcs[k].st = "pending"
          /\ (requests[r].pc # "new" /\ IsBroadcast(r)) =>
                /\ HandlesOf(requests'[r].rpcs) = HandlesOf(requests[r].rpcs)
                /\ \A i \in 1..Len(requests[r].rpcs) :
                      /\ requests[r].rpcs[i].st # "pending" =>
                            requests'[r].rpcs[i] = requests[r].rpcs[i]
                      /\ requests'[r].rpcs[i] # requests[r].rpcs[i] =>
                            \A j \in 1..Len(requests[r].rpcs) \ {i} :
                                requests'[r].rpcs[j] = requests[r].rpcs[j]]_vars

\* of the two calls of a broadcast to two handles, one has run into its
\* deadline and the other is fulfilled, and the request is answered
C30_Witness ==
    \E r \in ReqIds :
        /\ IsBroadcast(r)
        /\ Len(requests[r].rpcs) = 2
        /\ requests[r].rpcs[1].client # requests[r].rpcs[2].client
        /\ \E i, j \in 1..2 :
              /\ requests[r].rpcs[i].reason = "DEADLINE_EXCEEDED"
              /\ requests[r].rpcs[j].st = "fulfilled"
        /\ requests[r].pc = "done"

(***************************************************************************)
(* Further properties of the administrative endpoints, of the await and of *)
(* the limiter                                                             *)
(***************************************************************************)

\* C31 as stated: every unicast request completes, with success or with an
\* error, also when the room server it calls never answers
C31_UnicastEventuallyCompletes ==
    \A r \in ReqIds :
        (IsUnicast(r) /\ requests[r].pc = "awaiting") ~> (requests[r].pc = "done")

\* C32 as stated: the serverData of every create call answered by a
\* schema-valid body with serverData is on its property in the config the
\* edit commits, whatever the order in which the calls settle and also when
\* another call of the edit fails
C32_CommittedHoldsEveryResponse ==
    \A e \in Edits : \A i \in Reconciling(e) :
        committed[e] # <<>> =>
            \A p \in Entries(committed[e][1].properties, calls[e][i].body.id) :
                p.serverData = calls[e][i].data.serverData

\* C33: an edit one of whose calls raised dispatches no notification, also
\* when one of its create calls was answered by a valid body with serverData
C33_NoNotificationAfterARaise ==
    \A e \in Edits :
        "rejected" \in outcomes[e] =>
            /\ ~Logged(e, "notify")
            /\ DispatchesOf(e) = {}
            /\ pc[e] = "done"
            /\ Count(e, "error") = 1

\* a create call of an edit was answered by a valid body with serverData,
\* then another call of the edit raised, and the edit is done
C33_Witness ==
    \E e \in Edits :
        /\ "rejected" \in outcomes[e]
        /\ Reconciling(e) # {}
        /\ shouldNotifyUpdate[e]
        /\ committed[e] # <<>>
        /\ \A i \in Reconciling(e) :
              \A p \in Entries(committed[e][1].properties, calls[e][i].body.id) :
                  p.serverData = calls[e][i].data.serverData

\* C34: the limiter leaks no slot: once every submitted call has settled, by
\* success or by failure, no slot is taken and the queue is empty
C34_NoSlotLeaked ==
    (\A e \in Edits : AllSettled(calls[e])) => (activeCount = 0 /\ queue = <<>>)

\* two edits have submitted more calls than there are slots, every call has
\* settled, and calls of both edits failed
C34_Witness ==
    /\ \A e \in Edits :
          /\ Len(calls[e]) = LimiterProps
          /\ AllSettled(calls[e])
          /\ "rejected" \in outcomes[e]
    /\ \E e \in Edits : "fulfilled" \in outcomes[e]
    /\ 2 * LimiterProps > Concurrency

\* C35: POST /message calls every listed target, one call per entry of the
\* list; it answers ok only when the call of every target succeeded, and the
\* failure of one call fails the request, the other calls having been issued
C35_MessageNeedsEveryTarget ==
    \A r \in ReqIds : requests[r].kind = "message" =>
        /\ [k \in 1..Len(requests[r].rpcs) |-> requests[r].rpcs[k].roomId]
              = requests[r].targets
        /\ requests[r].response.status = "ok" <=>
              \A k \in 1..Len(requests[r].rpcs) : requests[r].rpcs[k].st = "fulfilled"
        /\ RpcsIn(r, "rejected") # {} =>
              requests[r].pc = "done" /\ requests[r].response.status = "error"

\* a message to two targets failed on the call of the second target, the
\* call of the first one having succeeded
C35_Witness ==
    \E r \in ReqIds :
        /\ requests[r].kind = "message"
        /\ Len(requests[r].targets) = 2
        /\ requests[r].rpcs[1].st = "fulfilled"
        /\ requests[r].rpcs[2].st = "rejected"
        /\ requests[r].response.status = "error"

\* the calls of r that succeeded and reported the room id
ReportersOf(r, id) ==
    {k \in RpcsIn(r, "fulfilled") :
        \E j \in 1..Len(requests[r].rpcs[k].value) :
            requests[r].rpcs[k].value[j].roomId = id}

Max(S) == CHOOSE n \in S : \A m \in S : m <= n

\* the count of the room in the last entry for it of the answer of call k
LastCount(r, k, id) ==
    LET value == requests[r].rpcs[k].value
    IN value[Max({j \in 1..Len(value) : value[j].roomId = id})].nbUsers

\* C36: in the answer of GET /rooms every room id stands once, with the count
\* given by the last, in the order of the handles of the registry, of the
\* calls that succeeded and reported it: the counts are not added up; and a
\* room id is in the answer exactly if a succeeded call reported it
C36_AggregateLastWins ==
    \A r \in ReqIds :
        (requests[r].kind = "rooms" /\ requests[r].pc = "done") =>
            /\ \A id \in Rooms : id \in DOMAIN requests[r].response.body
                                    <=> ReportersOf(r, id) # {}
            /\ \A id \in DOMAIN requests[r].response.body :
                  requests[r].response.body[id]
                      = LastCount(r, Max(ReportersOf(r, id)), id)

\* two room servers reported the same room with different counts, and the
\* answer holds the count of the second
C36_Witness ==
    \E r \in ReqIds :
        /\ requests[r].kind = "rooms"
        /\ requests[r].pc = "done"
        /\ ReportersOf(r, "a") = {1, 2}
        /\ LastCount(r, 1, "a") = 2
        /\ LastCount(r, 2, "a") = 1
        /\ requests[r].response.body["a"] = 1

\* the requests GET /worlds/:worldslug/members has answered
MembersAnswered == {r \in ReqIds : requests[r].kind = "members" /\ requests[r].pc = "done"}

\* C37: GET /worlds/:worldslug/members writes one answer per request: for a
\* total of 0, a total from 1 to 200 and a total above 200 the handler makes
\* exactly one status and body write
C37_MembersOneResponse ==
    \A r \in MembersAnswered : Len(requests[r].writes) = 1

(***************************************************************************)
(* Properties of the screen-sharing stores and of the typing members       *)
(***************************************************************************)

\* screen sharing is requested and allowed
SharingAllowed ==
    requestedScreenSharingState /\ ~inExternalServiceStore /\ peerStore # 0

\* C38: the local stream store holds a stream only while screen sharing is
\* requested, the user is in no external service and there is a peer: a
\* stream acquired for a request that was disabled before the capture
\* resolved is not published
C38_StreamOnlyWhileAllowed ==
    screenSharingLocalStreamStore.stream # NoStream => SharingAllowed

\* C39: a stream is not dropped without being stopped: when currentStream
\* is overwritten or set to null, the tracks of the stream it held are stopped
\* or have ended, also when two captures are pending and resolve in turn
C39_NoStreamDroppedLive ==
    [][(currentStream # NoStream /\ currentStream' # currentStream)
          => captures'[currentStream] # "live"]_vars

\* the ids of the typing members
TypingIds(list) == {list[k].id : k \in 1..Len(list)}

\* the list holds neither the local user nor an id twice
TypingListSound(list) ==
    /\ MyUserId \notin TypingIds(list)
    /\ Cardinality(TypingIds(list)) = Len(list)

\* C40 as stated: the typing members never hold the local user nor an id
\* twice, and every event for another member toggles the presence of that
\* member in the list
C40_EveryEventToggles ==
    [][/\ TypingListSound(typingMembers')
       /\ member'.userId # MyUserId =>
             (member'.userId \in TypingIds(typingMembers')
                 <=> member'.userId \notin TypingIds(typingMembers))]_vars

\* C40 amended: the typing members never hold the local user nor an id twice;
\* an event for another member of which the client holds the User object
\* toggles the presence of that member and leaves the other entries in their
\* order; an event for a member without User object, or for the local user,
\* leaves the list as it is
C40_KnownUserToggles ==
    [][/\ TypingListSound(typingMembers')
       /\ (member'.userId # MyUserId /\ member'.user # <<>>) =>
             /\ member'.userId \in TypingIds(typingMembers')
                   <=> member'.userId \notin TypingIds(typingMembers)
             /\ Filter(typingMembers', member'.userId)
                   = Filter(typingMembers, member'.userId)
       /\ (member'.userId = MyUserId \/ member'.user = <<>>) =>
             typingMembers' = typingMembers]_vars

\* a member that was typing among others has been taken out of the list by
\* its second event
C40_Witness ==
    /\ member.user # <<>>
    /\ member.userId # MyUserId
    /\ member.userId \notin TypingIds(typingMembers)
    /\ Len(typingMembers) >= 2

====
